---- MODULE Spec2Model ----
(***************************************************************************)
(* The funnel builder's graph store (FunnelBuilder in App.tsx, reproduced  *)
(* in docs/dashboard-architecture.md lines 484-724), its two localStorage  *)
(* slots, and the validation rules of ValidationPanel.tsx.                 *)
(***************************************************************************)
EXTENDS Integers, Sequences, FiniteSets, TLC

VARIABLES
    nodes,          \* useNodesState: the node list, in insertion order
    edges,          \* useEdgesState: the edge list, in insertion order
    counters,       \* useState(getNodeCounters): upsell/downsell counters
    storedCounters, \* localStorage slot 'funnel-counters'
    storage,        \* localStorage slot 'funnel-builder-state'
    now,            \* last reading of Date.now()
    mounted,        \* FALSE once a render has thrown (no error boundary)
    issues,         \* ValidationPanel's memoised issue list
    lastOp,         \* the event handled last, with its arguments
    generated,      \* history: label numbers generated by onDrop, per type
    imported        \* history: TRUE once the import dialog has parsed a file

vars == <<nodes, edges, counters, storedCounters, storage, now, mounted,
          issues, lastOp, generated, imported>>

-----------------------------------------------------------------------------
(* Bounds of the model *)

\* Nodes dropped onto a canvas that may also be filled from import files
MaxNodes == 1

\* Nodes dropped onto a canvas on which no edge is drawn
MaxDrops == 2

\* Edges the canvas holds when one more is drawn
MaxEdges == 1

\* Edges drawn on the canvas that was loaded with the three-page funnel
MaxDrawn == 2

\* Greatest value a label counter is driven to
MaxCounter == 2

\* Nodes and edges of the graphs handed to the validation panel
VMaxNodes == 2

VMaxEdges == 2

\* Readings of Date.now(): two drops may fall in the same millisecond or not
ClockReadings == {0, 1}

-----------------------------------------------------------------------------
(* types/nodes.ts *)

NodeTypes == {"salesPage", "orderPage", "upsell", "downsell", "thankYou"}

Repeatable == {"upsell", "downsell"}

NODE_TEMPLATES ==
    [salesPage |-> [label |-> "Sales Page"],
     orderPage |-> [label |-> "Order Page"],
     upsell    |-> [label |-> "Upsell"],
     downsell  |-> [label |-> "Downsell"],
     thankYou  |-> [label |-> "Thank You"]]

\* A label is the template's text and a numeric suffix; suffix 0 stands for
\* the bare template label.
Label(text, n) == [text |-> text, n |-> n]

\* `${type}-${Date.now()}`
NodeId(type, t) == <<type, t>>

MkNode(id, type, label) == [id |-> id, type |-> type, label |-> label]

\* @xyflow getEdgeId: the id is built from the two endpoints.
MkEdge(source, target) ==
    [id |-> <<source, target>>, source |-> source, target |-> target]

-----------------------------------------------------------------------------
(* Sequence helpers *)

IdsOf(nds) == {nds[i].id : i \in 1..Len(nds)}

RECURSIVE Concat(_)
Concat(ss) == IF ss = <<>> THEN <<>> ELSE Head(ss) \o Concat(Tail(ss))

\* Array.prototype.find: the first node with the id, or none.
FindNode(nds, id) ==
    LET hits == {i \in 1..Len(nds) : nds[i].id = id}
    IN  IF hits = {} THEN [found |-> FALSE, type |-> "none"]
        ELSE [found |-> TRUE,
              type |-> nds[CHOOSE i \in hits : \A j \in hits : i <= j].type]

-----------------------------------------------------------------------------
(* components/ValidationPanel.tsx: the issue list *)

Issue(severity, label, text, id) ==
    [type |-> severity, message |-> [label |-> label, text |-> text],
     nodeId |-> id]

NoOutgoing == "has no outgoing connection"

NoIncoming == "has no incoming connection"

Orphaned == "is orphaned (no connections)"

MultipleOutgoing ==
    "has multiple outgoing connections (typically should have one)"

HasIncoming(node, eds) == \E i \in 1..Len(eds) : eds[i].target = node.id

HasOutgoing(node, eds) == \E i \in 1..Len(eds) : eds[i].source = node.id

\* Mutant: the missing-incoming test is made before the orphan test.
OtherNodeProblems_IncomingFirst(node, eds) ==
    IF ~HasIncoming(node, eds)
    THEN <<Issue("warning", node.label, NoIncoming, node.id)>>
    ELSE IF ~HasOutgoing(node, eds)
    THEN <<Issue("warning", node.label, NoOutgoing, node.id)>>
    ELSE <<>>

\* Mutant: the orphan is reported with the severity of the other two cases.
OtherNodeProblems_OrphanAsWarning(node, eds) ==
    IF ~HasIncoming(node, eds) /\ ~HasOutgoing(node, eds)
    THEN <<Issue("warning", node.label, Orphaned, node.id)>>
    ELSE IF ~HasIncoming(node, eds)
    THEN <<Issue("warning", node.label, NoIncoming, node.id)>>
    ELSE IF ~HasOutgoing(node, eds)
    THEN <<Issue("warning", node.label, NoOutgoing, node.id)>>
    ELSE <<>>

\* The rule for the nodes that are neither a sales page nor a thank-you page.
OtherNodeProblems(node, eds) ==
    IF ~HasIncoming(node, eds) /\ ~HasOutgoing(node, eds)
    THEN <<Issue("error", node.label, Orphaned, node.id)>>
    ELSE IF ~HasIncoming(node, eds)
    THEN <<Issue("warning", node.label, NoIncoming, node.id)>>
    ELSE IF ~HasOutgoing(node, eds)
    THEN <<Issue("warning", node.label, NoOutgoing, node.id)>>
    ELSE <<>>

\* Mutant: the rule for the thank-you page is left out.
NodeProblems_NoThankYouRule(node, eds) ==
    (IF node.type = "salesPage" /\ ~HasOutgoing(node, eds)
     THEN <<Issue("warning", node.label, NoOutgoing, node.id)>> ELSE <<>>)
    \o
    (IF node.type # "salesPage" /\ node.type # "thankYou"
     THEN OtherNodeProblems(node, eds) ELSE <<>>)

\* Mutant: a sales page is also asked for an incoming edge.
NodeProblems_StartNeedsIncoming(node, eds) ==
    (IF node.type = "salesPage" /\ ~HasOutgoing(node, eds)
     THEN <<Issue("warning", node.label, NoOutgoing, node.id)>> ELSE <<>>)
    \o
    (IF node.type \in {"salesPage", "thankYou"} /\ ~HasIncoming(node, eds)
     THEN <<Issue("warning", node.label, NoIncoming, node.id)>> ELSE <<>>)
    \o
    (IF node.type # "salesPage" /\ node.type # "thankYou"
     THEN OtherNodeProblems(node, eds) ELSE <<>>)

\* The body of nodes.forEach: what one node pushes onto problems.
NodeProblems(node, eds) ==
    (IF node.type = "salesPage" /\ ~HasOutgoing(node, eds)
     THEN <<Issue("warning", node.label, NoOutgoing, node.id)>> ELSE <<>>)
    \o
    (IF node.type = "thankYou" /\ ~HasIncoming(node, eds)
     THEN <<Issue("warning", node.label, NoIncoming, node.id)>> ELSE <<>>)
    \o
    (IF node.type # "salesPage" /\ node.type # "thankYou"
     THEN OtherNodeProblems(node, eds) ELSE <<>>)

\* edges.filter((e) => e.source === sp.id).length
OutgoingCount(id, eds) == Cardinality({i \in 1..Len(eds) : eds[i].source = id})

\* Mutant: outgoing.length >= 1 in place of outgoing.length > 1.
SalesPageProblems_AtLeastOne(sp, eds) ==
    IF OutgoingCount(sp.id, eds) >= 1
    THEN <<Issue("warning", sp.label, MultipleOutgoing, sp.id)>>
    ELSE <<>>

\* Mutant: outgoing.length !== 1 in place of outgoing.length > 1.
SalesPageProblems_NotOne(sp, eds) ==
    IF OutgoingCount(sp.id, eds) # 1
    THEN <<Issue("warning", sp.label, MultipleOutgoing, sp.id)>>
    ELSE <<>>

\* The body of salesPages.forEach.
SalesPageProblems(sp, eds) ==
    IF OutgoingCount(sp.id, eds) > 1
    THEN <<Issue("warning", sp.label, MultipleOutgoing, sp.id)>>
    ELSE <<>>

IsSalesPage(n) == n.type = "salesPage"

\* Mutant: the sales-page pass runs before the per-node pass.
Validate_FanOutFirst(nds, eds) ==
    LET salesPages == SelectSeq(nds, IsSalesPage)
    IN  Concat([i \in 1..Len(salesPages) |-> SalesPageProblems(salesPages[i], eds)])
        \o Concat([i \in 1..Len(nds) |-> NodeProblems(nds[i], eds)])

Validate(nds, eds) ==
    Concat([i \in 1..Len(nds) |-> NodeProblems(nds[i], eds)])
    \o
    LET salesPages == SelectSeq(nds, IsSalesPage)
    IN  Concat([i \in 1..Len(salesPages) |-> SalesPageProblems(salesPages[i], eds)])

-----------------------------------------------------------------------------
(* JSON documents: the storage slot 'funnel-builder-state' and import files *)

\* A property of a parsed document: a JSON array, a missing (or falsy) value,
\* or a truthy value that is not an array.
ArrayField(items) == [kind |-> "array", items |-> items]

Absent == [kind |-> "absent", items |-> <<>>]

NotArray == [kind |-> "notArray", items |-> <<>>]

\* A text: ok is FALSE when JSON.parse throws on it.
Doc(ok, nodesField, edgesField) ==
    [ok |-> ok, nodes |-> nodesField, edges |-> edgesField]

\* JSON.stringify({ nodes, edges })
Stringify(nds, eds) == Doc(TRUE, ArrayField(nds), ArrayField(eds))

NoItem == [present |-> FALSE, doc |-> Doc(FALSE, Absent, Absent)]

Item(doc) == [present |-> TRUE, doc |-> doc]

\* JSON.stringify(counters) in the slot 'funnel-counters'
CountersItem(c) == [present |-> TRUE, upsell |-> c.upsell, downsell |-> c.downsell]

NoCounters == [present |-> FALSE, upsell |-> 0, downsell |-> 0]

\* Mutant: the stored counters are never read back.
getNodeCounters_IgnoresStorage(item) == [upsell |-> 0, downsell |-> 0]

getNodeCounters(item) ==
    IF item.present THEN [upsell |-> item.upsell, downsell |-> item.downsell]
    ELSE [upsell |-> 0, downsell |-> 0]

\* The files offered to the import dialog.
FileSalesPage == MkNode(NodeId("salesPage", 0), "salesPage", Label("Sales Page", 0))

FileOrderPage == MkNode(NodeId("orderPage", 0), "orderPage", Label("Order Page", 0))

FileThankYou == MkNode(NodeId("thankYou", 0), "thankYou", Label("Thank You", 0))

FileUpsell == MkNode(NodeId("upsell", 0), "upsell", Label("Upsell", 5))

ImportFiles ==
    [garbage   |-> Doc(FALSE, Absent, Absent),
     emptyObj  |-> Doc(TRUE, Absent, Absent),
     notArrays |-> Doc(TRUE, NotArray, NotArray),
     upsell5   |-> Stringify(<<FileUpsell>>, <<>>),
     nodesOnly |-> Doc(TRUE, ArrayField(<<FileThankYou>>), Absent),
     edgesOnly |-> Doc(TRUE, Absent,
                       ArrayField(<<MkEdge(FileSalesPage.id, FileOrderPage.id)>>)),
     terminal  |-> Stringify(<<FileThankYou, FileOrderPage>>,
                             <<MkEdge(FileThankYou.id, FileOrderPage.id)>>)]

\* nodesOnly is the mirror image of edgesOnly and is left out of the runs.
FileNames == DOMAIN ImportFiles \ {"nodesOnly"}

-----------------------------------------------------------------------------
(* The event handled last *)

Op(name) ==
    [op |-> name, rejected |-> FALSE, existing |-> FALSE, cascaded |-> 0,
     file |-> "none"]

-----------------------------------------------------------------------------
(* FunnelBuilder *)

\* useEffect([nodes, edges]): runs when a state setter has installed a new
\* array, and writes the slot only for a graph that is not empty.
SaveEffect(changed, nds, eds, item) ==
    IF changed /\ (Len(nds) > 0 \/ Len(eds) > 0)
    THEN Item(Stringify(nds, eds))
    ELSE item

Init ==
    /\ nodes = <<>>
    /\ edges = <<>>
    /\ counters = getNodeCounters(NoCounters)
    /\ storedCounters = NoCounters
    /\ storage = NoItem
    /\ now = 0
    /\ mounted = TRUE
    /\ issues = Validate(<<>>, <<>>)
    /\ lastOp = Op("init")
    /\ generated = [upsell |-> <<>>, downsell |-> <<>>]
    /\ imported = FALSE

\* Mutant: the increment is lost.
BumpCounters_NoIncrement(type, c) == c

\* Mutant: newCounters is built without spreading the old counters.
BumpCounters_DropsOthers(type, c) ==
    IF type \in Repeatable
    THEN [other \in Repeatable |-> IF other = type THEN c[type] + 1 ELSE 0]
    ELSE c

\* onDrop: newCounters[type] = (newCounters[type] || 0) + 1
BumpCounters(type, c) ==
    IF type \in Repeatable THEN [c EXCEPT ![type] = c[type] + 1] ELSE c

\* Mutant: the label carries the count read before the increment.
DropLabel_OldCount(type, c) ==
    IF type \in Repeatable
    THEN Label(NODE_TEMPLATES[type].label, c[type])
    ELSE Label(NODE_TEMPLATES[type].label, 0)

\* Mutant: the number continues after the greatest one on the canvas.
DropLabel_AfterCanvas(type, c) ==
    IF type \in Repeatable
    THEN LET seen == {c[type]} \cup {nodes[i].label.n : i \in {j \in 1..Len(nodes) : nodes[j].type = type}}
         IN  Label(NODE_TEMPLATES[type].label,
                   (CHOOSE n \in seen : \A other \in seen : other <= n) + 1)
    ELSE Label(NODE_TEMPLATES[type].label, 0)

\* onDrop: the label of the new node
DropLabel(type, c) ==
    IF type \in Repeatable
    THEN Label(NODE_TEMPLATES[type].label, BumpCounters(type, c)[type])
    ELSE Label(NODE_TEMPLATES[type].label, 0)

\* onDrop with a palette type in the drag data, at clock reading t
AddNode(type, t) ==
    /\ mounted
    /\ type \in Repeatable => counters[type] < MaxCounter
    /\ t \in ClockReadings
    /\ t >= now
    /\ LET label == DropLabel(type, counters)
           newNode == MkNode(NodeId(type, t), type, label)
       IN  /\ nodes' = Append(nodes, newNode)
           /\ counters' = BumpCounters(type, counters)
           /\ storedCounters' = IF type \in Repeatable
                                THEN CountersItem(BumpCounters(type, counters))
                                ELSE storedCounters
           /\ generated' = IF type \in Repeatable
                           THEN [generated EXCEPT ![type] = Append(@, label.n)]
                           ELSE generated
           /\ storage' = SaveEffect(TRUE, nodes', edges, storage)
           /\ issues' = Validate(nodes', edges)
           /\ lastOp' = Op("addNode")
    /\ now' = t
    /\ UNCHANGED <<edges, mounted, imported>>

\* onDrop with drag data that names no template: the early return
DropForeign ==
    /\ mounted
    /\ lastOp' = Op("dropForeign")
    /\ UNCHANGED <<nodes, edges, counters, storedCounters, storage, now,
                   mounted, issues, generated, imported>>

\* Mutant: the type is compared with a misspelt name.
IsTerminalSource_Misspelt(nds, source) == FindNode(nds, source).type = "thankyou"

\* onConnect: the guard on the source node's type
IsTerminalSource(nds, source) == FindNode(nds, source).type = "thankYou"

\* connectionExists of the library's addEdge
ConnectionExists(edge, eds) ==
    \E i \in 1..Len(eds) :
        eds[i].source = edge.source /\ eds[i].target = edge.target

\* Mutant: a connection from a node to itself is dropped.
AddEdge_NoSelfLoop(edge, eds) ==
    IF ConnectionExists(edge, eds) \/ edge.source = edge.target
    THEN eds ELSE Append(eds, edge)

\* addEdge(params, eds): the list itself when the connection exists already
AddEdge(edge, eds) ==
    IF ConnectionExists(edge, eds) THEN eds ELSE Append(eds, edge)

\* onConnect for a connection drawn between two nodes on the canvas
Connect(source, target) ==
    /\ mounted
    /\ source \in IdsOf(nodes)
    /\ target \in IdsOf(nodes)
    /\ IF IsTerminalSource(nodes, source)
       THEN /\ lastOp' = [Op("connect") EXCEPT !.rejected = TRUE]
            /\ UNCHANGED <<edges, storage, issues>>
       ELSE LET edge == MkEdge(source, target)
            IN  /\ edges' = AddEdge(edge, edges)
                /\ storage' = SaveEffect(~ConnectionExists(edge, edges),
                                         nodes, edges', storage)
                /\ issues' = Validate(nodes, edges')
                /\ lastOp' = [Op("connect") EXCEPT
                                  !.existing = ConnectionExists(edge, edges)]
    /\ UNCHANGED <<nodes, counters, storedCounters, now, mounted, generated,
                   imported>>

\* Mutant: only the edges leaving a deleted node are dropped.
EdgesAfterDelete_SourceOnly(eds, deletedIds) ==
    SelectSeq(eds, LAMBDA e : e.source \notin deletedIds)

\* onNodesDelete: eds.filter(e => !deletedIds.has(e.source) && !deletedIds.has(e.target))
EdgesAfterDelete(eds, deletedIds) ==
    SelectSeq(eds, LAMBDA e : e.source \notin deletedIds /\ e.target \notin deletedIds)

\* onNodesChange with the remove changes of the deleted nodes
NodesAfterDelete(nds, deletedIds) ==
    SelectSeq(nds, LAMBDA n : n.id \notin deletedIds)

\* Backspace/Delete on a selection of nodes
DeleteNodes(deletedIds) ==
    /\ mounted
    /\ deletedIds # {}
    /\ deletedIds \subseteq IdsOf(nodes)
    /\ nodes' = NodesAfterDelete(nodes, deletedIds)
    /\ edges' = EdgesAfterDelete(edges, deletedIds)
    /\ storage' = SaveEffect(TRUE, nodes', edges', storage)
    /\ issues' = Validate(nodes', edges')
    /\ lastOp' = [Op("deleteNodes") EXCEPT !.cascaded = Len(edges) - Len(edges')]
    /\ UNCHANGED <<counters, storedCounters, now, mounted, generated, imported>>

\* Backspace/Delete on a selected edge: onEdgesChange removes it by id
RemoveEdge(id) ==
    /\ mounted
    /\ \E i \in 1..Len(edges) : edges[i].id = id
    /\ edges' = SelectSeq(edges, LAMBDA e : e.id # id)
    /\ storage' = SaveEffect(TRUE, nodes, edges', storage)
    /\ issues' = Validate(nodes, edges')
    /\ lastOp' = Op("removeEdge")
    /\ UNCHANGED <<nodes, counters, storedCounters, now, mounted, generated,
                   imported>>

\* handleImport: if (data.nodes && Array.isArray(data.nodes)) setNodes(data.nodes)
ImportedNodes(doc, nds) ==
    IF doc.nodes.kind = "array" THEN doc.nodes.items ELSE nds

\* handleImport: if (data.edges && Array.isArray(data.edges)) setEdges(data.edges)
ImportedEdges(doc, eds) ==
    IF doc.edges.kind = "array" THEN doc.edges.items ELSE eds

\* handleImport's onchange for the chosen file
Import(file) ==
    /\ mounted
    /\ LET doc == ImportFiles[file]
       IN  IF ~doc.ok
           THEN UNCHANGED <<nodes, edges, storage, issues>>
           ELSE /\ nodes' = ImportedNodes(doc, nodes)
                /\ edges' = ImportedEdges(doc, edges)
                /\ storage' = SaveEffect(doc.nodes.kind = "array"
                                           \/ doc.edges.kind = "array",
                                         nodes', edges', Item(doc))
                /\ issues' = Validate(nodes', edges')
    /\ lastOp' = [Op("import") EXCEPT !.file = file,
                                      !.rejected = ~ImportFiles[file].ok]
    /\ imported' = (imported \/ ImportFiles[file].ok)
    /\ UNCHANGED <<counters, storedCounters, now, mounted, generated>>

\* The mount effect: if (savedNodes) setNodes(savedNodes); a truthy value that
\* is no array makes the next render throw.
LoadThrows(item) ==
    /\ item.present
    /\ item.doc.ok
    /\ item.doc.nodes.kind = "notArray" \/ item.doc.edges.kind = "notArray"

LoadedNodes(item) ==
    IF item.present /\ item.doc.ok /\ item.doc.nodes.kind = "array"
    THEN item.doc.nodes.items ELSE <<>>

LoadedEdges(item) ==
    IF item.present /\ item.doc.ok /\ item.doc.edges.kind = "array"
    THEN item.doc.edges.items ELSE <<>>

\* A page reload: state is rebuilt from the two storage slots.
Restart ==
    /\ counters' = getNodeCounters(storedCounters)
    /\ IF LoadThrows(storage)
       THEN /\ mounted' = FALSE
            /\ nodes' = <<>>
            /\ edges' = <<>>
            /\ storage' = storage
       ELSE /\ mounted' = TRUE
            /\ nodes' = LoadedNodes(storage)
            /\ edges' = LoadedEdges(storage)
            /\ storage' = SaveEffect(storage.present /\ storage.doc.ok,
                                     nodes', edges', storage)
    /\ issues' = Validate(nodes', edges')
    /\ lastOp' = Op("restart")
    /\ UNCHANGED <<storedCounters, now, generated, imported>>

\* The attempts the model follows: those that leave the edge list within
\* the bound
CanDraw(source, target, bound) ==
    \/ IsTerminalSource(nodes, source)
    \/ ConnectionExists(MkEdge(source, target), edges)
    \/ Len(edges) < bound

Next ==
    \/ \E type \in NodeTypes, t \in ClockReadings :
          Len(nodes) < MaxNodes /\ AddNode(type, t)
    \/ DropForeign
    \/ \E source \in IdsOf(nodes), target \in IdsOf(nodes) :
          CanDraw(source, target, MaxEdges) /\ Connect(source, target)
    \/ \E deletedIds \in SUBSET IdsOf(nodes) : DeleteNodes(deletedIds)
    \/ \E i \in 1..Len(edges) : RemoveEdge(edges[i].id)
    \/ \E file \in FileNames : Import(file)
    \/ Restart

Spec == Init /\ [][Next]_vars

\* Drops interleaved with deletions and page reloads; no edge is drawn.
NextDrops ==
    \/ \E type \in NodeTypes, t \in ClockReadings :
          Len(nodes) < MaxDrops /\ AddNode(type, t)
    \/ \E deletedIds \in SUBSET IdsOf(nodes) : DeleteNodes(deletedIds)
    \/ Restart

SpecDrops == Init /\ [][NextDrops]_vars

\* The editor mounted over a stored three-page funnel that has no edge yet;
\* connections are drawn and removed.
CanvasInit ==
    /\ nodes = <<FileSalesPage, FileOrderPage, FileThankYou>>
    /\ edges = <<>>
    /\ counters = getNodeCounters(NoCounters)
    /\ storedCounters = NoCounters
    /\ storage = Item(Stringify(nodes, edges))
    /\ now = 0
    /\ mounted = TRUE
    /\ issues = Validate(nodes, edges)
    /\ lastOp = Op("restart")
    /\ generated = [upsell |-> <<>>, downsell |-> <<>>]
    /\ imported = FALSE

NextCanvas ==
    \/ \E source \in IdsOf(nodes), target \in IdsOf(nodes) :
          CanDraw(source, target, MaxDrawn) /\ Connect(source, target)
    \/ \E i \in 1..Len(edges) : RemoveEdge(edges[i].id)

SpecCanvas == CanvasInit /\ [][NextCanvas]_vars

\* Files imported and nodes dropped next to what they installed; nodes are
\* deleted, no edge is drawn.
NextImport ==
    \/ \E type \in NodeTypes, t \in ClockReadings :
          Len(nodes) < MaxDrops /\ AddNode(type, t)
    \/ \E file \in FileNames : Import(file)
    \/ \E deletedIds \in SUBSET IdsOf(nodes) : DeleteNodes(deletedIds)

SpecImport == Init /\ [][NextImport]_vars

-----------------------------------------------------------------------------
(* The validation panel on its own: any node list and edge list it can be  *)
(* handed (the import dialog installs whatever a file holds), then a render *)

\* A node as onDrop builds it for the type, at a clock reading
VNode(type, t) ==
    MkNode(NodeId(type, t), type,
           Label(NODE_TEMPLATES[type].label, IF type \in Repeatable THEN 1 ELSE 0))

\* Node lists in insertion order; later drops never read an earlier clock
VNodeLists ==
    UNION {{nds \in [1..k -> {VNode(type, t) : type \in NodeTypes, t \in ClockReadings}] :
               \A i \in 1..k, j \in 1..k : i < j => nds[i].id[2] <= nds[j].id[2]}
           : k \in 0..VMaxNodes}

VEdgeLists(nds) ==
    UNION {[1..k -> {MkEdge(a, b) : a \in IdsOf(nds), b \in IdsOf(nds)}]
           : k \in 0..VMaxEdges}

\* The three-page funnel: a sales page, an order page and a thank-you page
ScenarioNodeLists ==
    {<<VNode("salesPage", 0), VNode("orderPage", 0), VNode("thankYou", 0)>>}

VInit ==
    /\ nodes \in VNodeLists \cup ScenarioNodeLists
    /\ edges \in VEdgeLists(nodes)
    /\ counters = getNodeCounters(NoCounters)
    /\ storedCounters = NoCounters
    /\ storage = NoItem
    /\ now = 0
    /\ mounted = TRUE
    /\ issues = <<>>
    /\ lastOp = Op("props")
    /\ generated = [upsell |-> <<>>, downsell |-> <<>>]
    /\ imported = FALSE

\* ValidationPanel's useMemo for the props it was handed
Render ==
    /\ lastOp.op = "props"
    /\ issues' = Validate(nodes, edges)
    /\ lastOp' = Op("render")
    /\ UNCHANGED <<nodes, edges, counters, storedCounters, storage, now,
                   mounted, generated, imported>>

VNext == Render

VSpec == VInit /\ [][VNext]_vars

-----------------------------------------------------------------------------
(* Notions the properties are stated in *)

Touches(edge, ids) == edge.source \in ids \/ edge.target \in ids

TypeOfId(id) == FindNode(nodes, id).type

NodesWithId(id) == {i \in 1..Len(nodes) : nodes[i].id = id}

EdgesFrom(id) == {k \in 1..Len(edges) : edges[k].source = id}

EdgesInto(id) == {k \in 1..Len(edges) : edges[k].target = id}

\* The positions of the issues reported against a node id
IssuesFor(id) == {k \in 1..Len(issues) : issues[k].nodeId = id}

IssuesWith(id, text) == {k \in IssuesFor(id) : issues[k].message.text = text}

Rendered == lastOp.op = "render"

\* A node that gives the panel nothing to report
WellFormedNode(node) ==
    CASE node.type = "salesPage" -> Cardinality(EdgesFrom(node.id)) = 1
      [] node.type = "thankYou"  -> EdgesInto(node.id) # {}
      [] OTHER -> EdgesInto(node.id) # {} /\ EdgesFrom(node.id) # {}

\* The graph salesPage -> orderPage -> thankYou
IsChain ==
    /\ nodes \in ScenarioNodeLists
    /\ edges = <<MkEdge(nodes[1].id, nodes[2].id), MkEdge(nodes[2].id, nodes[3].id)>>

MiddleTypes == {"orderPage", "upsell", "downsell"}

\* The row of the rule table a middle node falls in
MiddleCase(id) ==
    CASE EdgesInto(id) = {} /\ EdgesFrom(id) = {} -> "orphan"
      [] EdgesInto(id) = {} /\ EdgesFrom(id) # {} -> "noIncoming"
      [] EdgesInto(id) # {} /\ EdgesFrom(id) = {} -> "noOutgoing"
      [] OTHER -> "connected"

\* Positions of the nodes the per-node pass reports
PerNodePositions ==
    {i \in 1..Len(nodes) :
        CASE nodes[i].type = "salesPage" -> EdgesFrom(nodes[i].id) = {}
          [] nodes[i].type = "thankYou"  -> EdgesInto(nodes[i].id) = {}
          [] OTHER -> EdgesInto(nodes[i].id) = {} \/ EdgesFrom(nodes[i].id) = {}}

\* Positions of the sales pages the fan-out pass reports
FanOutPositions ==
    {i \in 1..Len(nodes) :
        nodes[i].type = "salesPage" /\ Cardinality(EdgesFrom(nodes[i].id)) > 1}

\* The k-th smallest member of a set of positions
Nth(S, k) == CHOOSE i \in S : Cardinality({j \in S : j < i}) = k - 1

\* A document the import dialog must refuse
Malformed(doc) == ~doc.ok \/ doc.nodes.kind # "array" \/ doc.edges.kind # "array"

-----------------------------------------------------------------------------
(* Properties *)

\* C1: cascade deletion. Whatever the graph and whatever set D of its node
\* ids is deleted, the step of deleteNodes(D) leaves no edge whose source or
\* target is in D.
CascadeDeletion ==
    [][\A D \in SUBSET IdsOf(nodes) :
          DeleteNodes(D) => \A k \in 1..Len(edges') : ~Touches(edges'[k], D)]_vars

\* C1 witness: a deletion that took edges with it and left nodes behind.
CascadeDeletionWitness ==
    lastOp.op = "deleteNodes" /\ lastOp.cascaded > 0 /\ Len(nodes) > 0

\* C2: no dangling edges. In every reachable state each edge's source and
\* target are ids of nodes in the node list.
NoDanglingEdges ==
    \A k \in 1..Len(edges) :
        edges[k].source \in IdsOf(nodes) /\ edges[k].target \in IdsOf(nodes)

\* C3: a connection attempted from a thankYou node is rejected and leaves
\* nodes, edges, counters and both storage slots as they were.
TerminalConnectRejected ==
    [][\A s \in IdsOf(nodes), t \in IdsOf(nodes) :
          (Connect(s, t) /\ TypeOfId(s) = "thankYou")
             => /\ lastOp'.rejected
                /\ nodes' = nodes
                /\ edges' = edges
                /\ Len(edges') = Len(edges)
                /\ counters' = counters
                /\ storedCounters' = storedCounters
                /\ storage' = storage]_vars

\* C3 witness: a rejected attempt on a canvas holding a thankYou node, another
\* node and an edge.
TerminalConnectRejectedWitness ==
    /\ lastOp.op = "connect"
    /\ lastOp.rejected
    /\ Len(nodes) >= 2
    /\ Len(edges) >= 1

LabelsStrictlyIncreasing ==
    \A type \in Repeatable :
        \A i \in 1..Len(generated[type]), j \in 1..Len(generated[type]) :
            i < j => generated[type][i] < generated[type][j]

\* C5 witness: an upsell was dropped, deleted, and a second upsell dropped;
\* the node on the canvas carries the greater number.
LabelsStrictlyIncreasingWitness ==
    /\ lastOp.op = "addNode"
    /\ Len(generated.upsell) = 2
    /\ Len(nodes) = 1
    /\ nodes[1].type = "upsell"
    /\ nodes[1].label.n = 2

\* C6: counter invariant. No step lowers a counter, and before and after
\* every step each counter is at least the number of nodes of its type that
\* onDrop has created.
CounterInvariant ==
    [][\A type \in Repeatable :
          /\ counters'[type] >= counters[type]
          /\ counters[type] >= Len(generated[type])
          /\ counters'[type] >= Len(generated'[type])]_vars

\* C6 witness: both counters have been driven up, the nodes are gone again and
\* a file has been imported over them.
CounterInvariantWitness ==
    /\ counters.upsell = 2
    /\ counters.downsell = 1
    /\ lastOp.op = "import"
    /\ \A i \in 1..Len(nodes) : nodes[i].label.n # 2

\* C7: node ids are unique. No two positions of the node list hold the same
\* id.
NodeIdsUnique ==
    \A i \in 1..Len(nodes), j \in 1..Len(nodes) :
        i # j => nodes[i].id # nodes[j].id

\* C8: import is all-or-nothing. Importing a file that does not parse, or
\* whose nodes or edges are missing or no array, leaves nodes and edges both
\* as they were.
ImportAllOrNothing ==
    [][\A file \in FileNames :
          (Import(file) /\ Malformed(ImportFiles[file]))
             => (nodes' = nodes /\ edges' = edges)]_vars

\* C9 as claimed: every node with neither an incoming nor an outgoing edge
\* gets exactly one issue, the error 'is orphaned (no connections)'.
OrphanPriorityAnyType ==
    Rendered =>
        \A i \in 1..Len(nodes) :
            (EdgesInto(nodes[i].id) = {} /\ EdgesFrom(nodes[i].id) = {})
            => /\ Cardinality(IssuesFor(nodes[i].id))
                    = Cardinality(NodesWithId(nodes[i].id))
               /\ \A k \in IssuesFor(nodes[i].id) :
                     issues[k].type = "error" /\ issues[k].message.text = Orphaned

\* C9 as amended: every orderPage, upsell or downsell node with neither an
\* incoming nor an outgoing edge gets exactly one issue, the error 'is
\* orphaned (no connections)', and no 'no incoming'/'no outgoing' warning.
OrphanPriority ==
    Rendered =>
        \A i \in 1..Len(nodes) :
            (/\ nodes[i].type \in {"orderPage", "upsell", "downsell"}
             /\ EdgesInto(nodes[i].id) = {}
             /\ EdgesFrom(nodes[i].id) = {})
            => /\ Cardinality(IssuesFor(nodes[i].id))
                    = Cardinality(NodesWithId(nodes[i].id))
               /\ \A k \in IssuesFor(nodes[i].id) :
                     issues[k].type = "error" /\ issues[k].message.text = Orphaned

\* C9 witness: a rendered graph with an orphaned upsell beside a node that
\* has an edge.
OrphanPriorityWitness ==
    /\ Rendered
    /\ Len(edges) > 0
    /\ \E i \in 1..Len(nodes) :
          /\ nodes[i].type = "upsell"
          /\ EdgesInto(nodes[i].id) = {}
          /\ EdgesFrom(nodes[i].id) = {}

\* C10: sales-page fan-out. A salesPage node gets the 'multiple outgoing
\* connections' warning exactly once when it is the source of more than one
\* edge, then with no 'no incoming'/'no outgoing' issue beside it, and not at
\* all otherwise.
SalesPageFanOut ==
    Rendered =>
        \A i \in 1..Len(nodes) :
            nodes[i].type = "salesPage" =>
                LET id == nodes[i].id
                IN  IF Cardinality(EdgesFrom(id)) > 1
                    THEN /\ Cardinality(IssuesWith(id, MultipleOutgoing))
                              = Cardinality(NodesWithId(id))
                         /\ \A k \in IssuesWith(id, MultipleOutgoing) :
                               issues[k].type = "warning"
                         /\ IssuesWith(id, NoIncoming) = {}
                         /\ IssuesWith(id, NoOutgoing) = {}
                    ELSE IssuesWith(id, MultipleOutgoing) = {}

\* C10 witness: a rendered salesPage that is the source of two edges, one of
\* them to an orderPage.
SalesPageFanOutWitness ==
    /\ Rendered
    /\ \E i \in 1..Len(nodes), j \in 1..Len(nodes) :
          /\ nodes[i].type = "salesPage"
          /\ nodes[j].type = "orderPage"
          /\ Cardinality(EdgesFrom(nodes[i].id)) = 2
          /\ \E k \in EdgesFrom(nodes[i].id) : edges[k].target = nodes[j].id

\* C11: all-clear characterisation. The rendered issue list is empty exactly
\* when every salesPage is the source of exactly one edge, every thankYou is
\* the target of an edge, and every other node is both a target and a source;
\* the chain salesPage -> orderPage -> thankYou is such a graph.
AllClear ==
    Rendered =>
        /\ issues = <<>> <=> \A i \in 1..Len(nodes) : WellFormedNode(nodes[i])
        /\ IsChain => issues = <<>>

\* C11 witness: the chain salesPage -> orderPage -> thankYou has been
\* rendered and the panel holds no issue.
AllClearWitness == Rendered /\ IsChain /\ issues = <<>>

\* C12: start and end nodes. A salesPage gets the warning 'has no outgoing
\* connection' exactly when it is the source of no edge, and never a 'no
\* incoming' or orphan issue; a thankYou gets the warning 'has no incoming
\* connection' exactly when it is the target of no edge, and never a 'no
\* outgoing' or orphan issue; a lone salesPage with no edge yields exactly
\* that one warning.
StartEndRules ==
    Rendered =>
        /\ \A i \in 1..Len(nodes) :
              LET id == nodes[i].id
              IN  /\ nodes[i].type = "salesPage" =>
                        /\ Cardinality(IssuesWith(id, NoOutgoing))
                             = (IF EdgesFrom(id) = {}
                                THEN Cardinality(NodesWithId(id)) ELSE 0)
                        /\ \A k \in IssuesWith(id, NoOutgoing) :
                              issues[k].type = "warning"
                        /\ IssuesWith(id, NoIncoming) = {}
                        /\ IssuesWith(id, Orphaned) = {}
                  /\ nodes[i].type = "thankYou" =>
                        /\ Cardinality(IssuesWith(id, NoIncoming))
                             = (IF EdgesInto(id) = {}
                                THEN Cardinality(NodesWithId(id)) ELSE 0)
                        /\ \A k \in IssuesWith(id, NoIncoming) :
                              issues[k].type = "warning"
                        /\ IssuesWith(id, NoOutgoing) = {}
                        /\ IssuesWith(id, Orphaned) = {}
        /\ (Len(nodes) = 1 /\ nodes[1].type = "salesPage" /\ edges = <<>>)
              => issues = <<Issue("warning", nodes[1].label, NoOutgoing, nodes[1].id)>>

\* C12 witness: a rendered salesPage with an edge into it and none out of it,
\* beside a thankYou with an edge out of it and none into it.
StartEndRulesWitness ==
    /\ Rendered
    /\ \E i \in 1..Len(nodes), j \in 1..Len(nodes) :
          /\ nodes[i].type = "salesPage"
          /\ nodes[j].type = "thankYou"
          /\ EdgesFrom(nodes[i].id) = {}
          /\ EdgesInto(nodes[i].id) # {}
          /\ EdgesInto(nodes[j].id) = {}
          /\ EdgesFrom(nodes[j].id) # {}
          /\ Len(issues) = 2

\* C13: counters survive a reload and the clearing of the graph. A page
\* reload and a deletion of nodes (of all of them included) leave both
\* counters at their last value, and the number onDrop puts on an upsell or
\* downsell label, right after a reload as in any other state, is greater
\* than every number generated for that type before.
CountersSurviveRestart ==
    [][/\ Restart => counters' = counters
       /\ \A D \in SUBSET IdsOf(nodes) :
             DeleteNodes(D) => (counters' = counters
                                /\ storedCounters' = storedCounters)
       /\ \A type \in Repeatable, t \in ClockReadings :
             AddNode(type, t) =>
                 /\ Len(generated'[type]) = Len(generated[type]) + 1
                 /\ \A k \in 1..Len(generated[type]) :
                       generated[type][k] < nodes'[Len(nodes')].label.n
                 /\ \A k \in 1..Len(generated[type]) :
                       generated[type][k] < generated'[type][Len(generated'[type])]]_vars

\* C13 witness: the page has been reloaded after upsells were dropped, the
\* upsell counter is back at its last value and a further drop is possible.
CountersSurviveRestartWitness ==
    /\ lastOp.op = "restart"
    /\ Len(generated.upsell) = 1
    /\ counters.upsell = 1
    /\ counters.upsell < MaxCounter
    /\ Len(nodes) < MaxDrops

\* C14: the rule table of the middle nodes. An orderPage, upsell or
\* downsell gets exactly one issue: the error 'is orphaned' when it has
\* neither an incoming nor an outgoing edge, else the warning 'has no
\* incoming connection' when it has no incoming edge, else the warning 'has
\* no outgoing connection' when it has no outgoing edge, and no issue when it
\* has both; no issue other than the orphan one has severity error.
MiddleNodeRules ==
    Rendered =>
        /\ \A i \in 1..Len(nodes) :
              nodes[i].type \in MiddleTypes =>
                  LET id == nodes[i].id
                      row == MiddleCase(id)
                  IN  /\ Cardinality(IssuesFor(id))
                           = (IF row = "connected" THEN 0
                              ELSE Cardinality(NodesWithId(id)))
                      /\ \A k \in IssuesFor(id) :
                            /\ row = "orphan" =>
                                  issues[k].type = "error"
                                  /\ issues[k].message.text = Orphaned
                            /\ row = "noIncoming" =>
                                  issues[k].type = "warning"
                                  /\ issues[k].message.text = NoIncoming
                            /\ row = "noOutgoing" =>
                                  issues[k].type = "warning"
                                  /\ issues[k].message.text = NoOutgoing
        /\ \A k \in 1..Len(issues) :
              issues[k].type = "error" <=> issues[k].message.text = Orphaned

\* C14 witness: a rendered graph in which one middle node lacks only its
\* incoming edge and another only its outgoing edge.
MiddleNodeRulesWitness ==
    /\ Rendered
    /\ \E i \in 1..Len(nodes), j \in 1..Len(nodes) :
          /\ nodes[i].type \in MiddleTypes
          /\ nodes[j].type \in MiddleTypes
          /\ MiddleCase(nodes[i].id) = "noIncoming"
          /\ MiddleCase(nodes[j].id) = "noOutgoing"
          /\ Len(issues) = 2

LabelGenerator ==
    [][\A type \in NodeTypes, t \in ClockReadings :
          AddNode(type, t) =>
              LET node == nodes'[Len(nodes')]
              IN  /\ Len(nodes') = Len(nodes) + 1
                  /\ node.type = type
                  /\ node.label.text = NODE_TEMPLATES[type].label
                  /\ IF type \in {"upsell", "downsell"}
                     THEN /\ counters'[type] = counters[type] + 1
                          /\ \A other \in Repeatable \ {type} :
                                counters'[other] = counters[other]
                          /\ node.label.n = counters'[type]
                          /\ getNodeCounters(storedCounters') = counters'
                     ELSE /\ node.label.n = 0
                          /\ counters' = counters
                          /\ storedCounters' = storedCounters]_vars

\* C17 witness: a downsell has just been dropped as 'Downsell 1' while the
\* upsell counter stands at 1 from an earlier drop.
LabelGeneratorWitness ==
    /\ lastOp.op = "addNode"
    /\ Len(nodes) = 2
    /\ nodes[2].type = "downsell"
    /\ nodes[2].label = Label("Downsell", 1)
    /\ counters = [upsell |-> 1, downsell |-> 1]

\* C18: import leaves the counters untouched. No import, whatever the file,
\* changes a counter in memory or in storage, and the number on the label of
\* the next upsell or downsell dropped is the counter plus one whatever
\* labels the canvas holds; after importing a node labelled 'Upsell 5' with
\* the upsell counter at 0, the next upsell is labelled 'Upsell 1'.
ImportKeepsCounters ==
    [][/\ \A file \in FileNames :
             Import(file) => (counters' = counters
                              /\ storedCounters' = storedCounters)
       /\ \A type \in Repeatable, t \in ClockReadings :
             AddNode(type, t) =>
                 nodes'[Len(nodes')].label
                    = Label(NODE_TEMPLATES[type].label, counters[type] + 1)
       /\ \A t \in ClockReadings :
             (/\ lastOp.op = "import"
              /\ lastOp.file = "upsell5"
              /\ counters.upsell = 0
              /\ AddNode("upsell", t))
                 => nodes'[Len(nodes')].label = Label("Upsell", 1)]_vars

\* C18 witness: the canvas holds the imported 'Upsell 5' and, dropped after
\* it, 'Upsell 1'.
ImportKeepsCountersWitness ==
    /\ lastOp.op = "addNode"
    /\ imported
    /\ Len(nodes) = 2
    /\ nodes[1].label = Label("Upsell", 5)
    /\ nodes[2].label = Label("Upsell", 1)
    /\ counters.upsell = 1

\* C19: the persisted graph tracks the live graph. After every drop,
\* connection, deletion and import the slot 'funnel-builder-state' holds the
\* current nodes and edges: a reload from it would restore exactly the graph
\* in memory.
PersistedTracksLive ==
    (mounted /\ lastOp.op \in {"addNode", "connect", "deleteNodes", "import"})
        => /\ ~LoadThrows(storage)
           /\ LoadedNodes(storage) = nodes
           /\ LoadedEdges(storage) = edges

\* C20: at most one issue per node. When no two nodes share an id, the
\* rendered list holds at most one issue for each node id (a salesPage never
\* gets both the 'no outgoing' and the fan-out warning), it is no longer than
\* the node list, and every issue carries the id of a node of the graph.
OneIssuePerNode ==
    (Rendered /\ NodeIdsUnique) =>
        /\ \A i \in 1..Len(nodes) :
              /\ Cardinality(IssuesFor(nodes[i].id)) <= 1
              /\ ~(/\ IssuesWith(nodes[i].id, NoOutgoing) # {}
                    /\ IssuesWith(nodes[i].id, MultipleOutgoing) # {})
        /\ Len(issues) <= Len(nodes)
        /\ \A k \in 1..Len(issues) : issues[k].nodeId \in IdsOf(nodes)

\* C20 witness: two nodes with different ids, each with its one issue, one
\* of them a salesPage with the fan-out warning and no 'no outgoing' warning.
OneIssuePerNodeWitness ==
    /\ Rendered
    /\ NodeIdsUnique
    /\ Len(nodes) = 2
    /\ Len(issues) = 2
    /\ \E i \in 1..Len(nodes) :
          /\ nodes[i].type = "salesPage"
          /\ IssuesWith(nodes[i].id, MultipleOutgoing) # {}
          /\ IssuesWith(nodes[i].id, NoOutgoing) = {}

====
